---- MODULE Spec2Model ----
(***************************************************************************)
(* Telenet API client (custom_components/telenet/client.py): the request   *)
(* dispatcher TelenetClient.request and the login handshake                *)
(* TelenetClient.login, as a state machine over an explicit Python call    *)
(* stack.  The portal is the environment: every HTTP request is answered   *)
(* by a nondeterministically chosen response.                              *)
(*                                                                         *)
(* HTTP status codes are written as strings ("200", "404", ...) so that    *)
(* they can be compared with Python's None, written "None".                *)
(*                                                                         *)
(* The discovery pass TelenetClient.products is a second state machine     *)
(* over the same client: there the portal is a fixture (the upstream data  *)
(* and the one endpoint that fails), request() is taken by what it hands   *)
(* back (a response with the expected status, False, or an exception) and  *)
(* login() by how it ends.                                                 *)
(***************************************************************************)
EXTENDS Integers, Sequences, FiniteSets, TLC

VARIABLES
    stack,          \* Python call stack: frames of request() and login(), innermost last
    ret,            \* value handed by the frame that just returned to its caller
    outcome,        \* how the last top-level call ended (return value or exception)
    cookie,         \* session.cookies["TOKEN-XSRF"]
    header,         \* session.headers["X-TOKEN-XSRF"]
    user_details,   \* self.user_details
    request_error,  \* self.request_error
    log,            \* history of the running top-level call: login() calls and HTTP requests
    all_products,   \* self.all_products: a dict, as the sequence of its items
    product_types,  \* self.product_types
    total_cost,     \* self.total_cost, in cents
    addresses,      \* self.addresses: the address ids cached
    plan_products,  \* self.plan_products: the identifiers of the PLAN records cached
    fixture,        \* the portal of the discovery pass: its data and how it answers
    products_pc,    \* where the running products() call is
    http,           \* HTTP requests sent by the running or last products() call
    calls           \* the last products() calls that ended, oldest first

\* the session, written by request() and login()
session == <<stack, ret, cookie, header, request_error, log>>

\* the product table and what the discovery pass works with
pipeline ==
    <<all_products, product_types, total_cost, addresses, plan_products,
      fixture, products_pc, http, calls>>

vars ==
    <<stack, ret, outcome, cookie, header, user_details, request_error, log,
      all_products, product_types, total_cost, addresses, plan_products,
      fixture, products_pc, http, calls>>

-----------------------------------------------------------------------------
(* Bounds and constants *)

\* const.CONNECTION_RETRY (const.py): "a fixed small integer (e.g. 3)"
CONNECTION_RETRY == 3

\* Frames the interpreter allows on the call stack before RecursionError
MaxDepth == 6

\* Events kept in the history; a longer history collapses to Overflow
MaxLog == 6

\* Values the portal can put in the TOKEN-XSRF cookie
Tokens == {"xsrf-A", "xsrf-B"}

\* Customer numbers the portal can report
Customers == {"c1", "c2"}

-----------------------------------------------------------------------------
(* Python values *)

\* {}
EmptyDict == [k \in {} |-> k]

\* JSON bodies of the user-details endpoint, with and without customer_number
UserDicts ==
    {[customer_number |-> c, first_name |-> "Ann"] : c \in Customers}
        \cup {[first_name |-> "Ann"]}

\* Response bodies, by what the code reads of them
EmptyBody == [kind |-> "empty"]
TokenBody(n) == [kind |-> "text", parts |-> n]      \* n comma-separated parts
ErrorBody(c) == [kind |-> "error", code |-> c]      \* JSON object {"code": c, ...}
UserBody(d) == [kind |-> "user", json |-> d]        \* JSON object d

\* len(response.text.split(",", maxsplit=2))
SplitLen(body) == IF body.kind = "text" THEN body.parts ELSE 1

\* response.text.find("code") != -1
HasCodeText(body) == body.kind = "error"

\* response.json()
Json(body) ==
    CASE body.kind = "user" -> body.json
      [] body.kind = "error" -> [code |-> body.code]
      [] OTHER -> EmptyDict

\* The soft-failure sentinel: Python's False
False == [type |-> "bool"]

\* A requests.Response
Response(s, b, u) == [type |-> "Response", status_code |-> s, body |-> b, url |-> u]

IsResponse(v) == v.type = "Response"

\* A dict returned by login()
Dict(d) == [type |-> "dict", value |-> d]

-----------------------------------------------------------------------------
(* The portal *)

UrlProbe == "{ocapi}/oauth/userdetails"
UrlAuthorize == "{openid}/oauth/authorize"
UrlLoginDo == "{openid}/login.do"
UrlUser == "https://api.prd.telenet.be/ocapi/oauth/userdetails"
UrlApi == "https://api.prd.telenet.be/ocapi/public/api"

Urls == {UrlProbe, UrlAuthorize, UrlLoginDo, UrlUser, UrlApi}

\* Final URLs of a response, by the substrings the code looks for
LoginPage == "openid/login"
AuthError == "openid/login?authentication_error=true"
Plain == "plain"

Status == {"200", "401", "403", "404", "500", "400"}

IsUserUrl(url) == url \in {UrlProbe, UrlUser}

BodiesFor(url, s) ==
    CASE s = "200" -> IF IsUserUrl(url) THEN {UserBody(d) : d \in UserDicts} ELSE {EmptyBody}
      [] s = "401" -> IF IsUserUrl(url) THEN {TokenBody(n) : n \in 1..3} ELSE {EmptyBody}
      [] s = "403" -> IF IsUserUrl(url) THEN {TokenBody(n) : n \in 1..3}
                      ELSE IF url = UrlAuthorize THEN {EmptyBody}
                      ELSE {EmptyBody, ErrorBody("OCAPI-ERR-667"), ErrorBody("OCAPI-ERR-000")}
      [] s = "404" -> {ErrorBody("OCAPI-ERR-000")}
      [] OTHER -> {EmptyBody}

UrlsFor(url) ==
    CASE url = UrlAuthorize -> {Plain, LoginPage}
      [] url = UrlLoginDo -> {Plain, AuthError}
      [] OTHER -> {Plain}

\* Every response the portal can give to a request for url
ServerResponses(url) ==
    UNION {{Response(s, b, u) : b \in BodiesFor(url, s), u \in UrlsFor(url)} : s \in Status}

\* A portal whose API endpoint keeps answering 401, 500 or 403 without an error
\* code, and whose current-user probe answers 200 (every re-login succeeds)
ReauthResponses(url) ==
    IF url = UrlApi
    THEN {Response(s, EmptyBody, Plain) : s \in {"401", "500", "403"}}
    ELSE {Response("200", UserBody(d), Plain) :
            d \in {u \in UserDicts : "customer_number" \in DOMAIN u}}

-----------------------------------------------------------------------------
(* Frames *)

RequestFrame(url, data, expected, retrying, left) ==
    [fn |-> "request", url |-> url, data |-> data, expected |-> expected,
     retrying |-> retrying, connection_retry_left |-> left, pc |-> "send"]

LoginFrame == [fn |-> "login", pc |-> "probe", token_fetch_count |-> 0]

NoRet == [set |-> FALSE]
Returned(frame, v) == [set |-> TRUE, from |-> frame, val |-> v]

Running == [kind |-> "running"]
Idle == [kind |-> "idle"]

Top == stack[Len(stack)]
Below == SubSeq(stack, 1, Len(stack) - 1)
SetPc(frame, pc) == [frame EXCEPT !.pc = pc]

\* The history, capped
Overflow == <<[ev |-> "overflow"]>>
Record(l, e) == IF l = Overflow \/ Len(l) >= MaxLog THEN Overflow ELSE Append(l, e)
LoginEvent(ud) == [ev |-> "login", user_details |-> ud]
RequestEvent(f, r) ==
    [ev |-> "request", url |-> f.url, data |-> f.data, expected |-> f.expected,
     retrying |-> f.retrying, connection_retry_left |-> f.connection_retry_left,
     response |-> r]

-----------------------------------------------------------------------------
(* Exceptions *)

\* an exception's message
Message(text) == [kind |-> "message", text |-> text]

TelenetServiceException(arg) == [type |-> "TelenetServiceException", arg |-> arg]
BadCredentialsException(arg) == [type |-> "BadCredentialsException", arg |-> arg]
\* 'str' object is not callable, 'bool' object has no attribute ...
TypeError == [type |-> "TypeError"]
AttributeError == [type |-> "AttributeError"]
\* a dict has no such key
KeyError == [type |-> "KeyError"]
\* maximum recursion depth exceeded
RecursionError == [type |-> "RecursionError"]

-----------------------------------------------------------------------------
(* Decisions of the code *)

\* request() keeping the header it has when it returns a response
XsrfHeader_Stale(c) == header

\* request(), line 122: the X-TOKEN-XSRF header becomes the TOKEN-XSRF cookie c
XsrfHeader(c) == c

\* request() testing for the unexpected status before the 404
RequestOutcome_NotFoundIsUnexpected(expected, retrying, left, r) ==
    IF expected = "None" \/ r.status_code = expected THEN "return"
    ELSE IF r.status_code \notin {"403", "401", "500"} /\ left > 0 /\ ~retrying
        THEN "raise_unexpected"
    ELSE IF r.status_code = "404" THEN "soft"
    ELSE IF r.status_code = "403" /\ HasCodeText(r.body)
        THEN (IF Json(r.body).code \notin {"OCAPI-ERR-667"} THEN "soft" ELSE "raise_forbidden")
    ELSE "relogin"

\* request() escalating every 403 to a new login
RequestOutcome_ForbiddenIsRelogin(expected, retrying, left, r) ==
    IF expected = "None" \/ r.status_code = expected THEN "return"
    ELSE IF r.status_code = "404" THEN "soft"
    ELSE IF r.status_code \notin {"403", "401", "500"} /\ left > 0 /\ ~retrying
        THEN "raise_unexpected"
    ELSE "relogin"

\* request() without the fast failure of lines 92-101
RequestOutcome_NoFastFail(expected, retrying, left, r) ==
    IF expected = "None" \/ r.status_code = expected THEN "return"
    ELSE IF r.status_code = "404" THEN "soft"
    ELSE IF r.status_code = "403" /\ HasCodeText(r.body)
        THEN (IF Json(r.body).code \notin {"OCAPI-ERR-667"} THEN "soft" ELSE "raise_forbidden")
    ELSE "relogin"

\* request() taking whatever a retry gets for an answer
RequestOutcome_TrustsRetry(expected, retrying, left, r) ==
    IF expected = "None" \/ r.status_code = expected \/ retrying THEN "return"
    ELSE IF r.status_code = "404" THEN "soft"
    ELSE IF r.status_code \notin {"403", "401", "500"} /\ left > 0 THEN "raise_unexpected"
    ELSE IF r.status_code = "403" /\ HasCodeText(r.body)
        THEN (IF Json(r.body).code \notin {"OCAPI-ERR-667"} THEN "soft" ELSE "raise_forbidden")
    ELSE "relogin"

\* request(), lines 88-121: what to do with response r
RequestOutcome(expected, retrying, left, r) ==
    IF expected = "None" \/ r.status_code = expected THEN "return"
    ELSE IF r.status_code = "404" THEN "soft"
    ELSE IF r.status_code \notin {"403", "401", "500"} /\ left > 0 /\ ~retrying
        THEN "raise_unexpected"
    ELSE IF r.status_code = "403" /\ HasCodeText(r.body)
        THEN (IF Json(r.body).code \notin {"OCAPI-ERR-667"} THEN "soft" ELSE "raise_forbidden")
    ELSE "relogin"

\* the recursive call with the budget left as it was
RetryFrame_SameBudget(f) ==
    RequestFrame(f.url, f.data, f.expected, TRUE, f.connection_retry_left)

\* request(), lines 119-121: the recursive call
RetryFrame(f) ==
    RequestFrame(f.url, f.data, f.expected, TRUE, f.connection_retry_left - 1)

\* login(), lines 132-137
ProbeRequest == RequestFrame(UrlProbe, "None", "None", FALSE, CONNECTION_RETRY)

\* login() probing again whatever the status of the answer
ProbeOutcome_ReprobesAnyStatus(r, token_fetch_count) ==
    IF r.status_code = "200" THEN "return"
    ELSE IF token_fetch_count > CONNECTION_RETRY THEN "raise_tokens"
    ELSE IF (r.status_code # "401" /\ r.status_code # "403") \/ SplitLen(r.body) # 2
        THEN "again"
    ELSE "authorize"

\* login() without the check for a session that is still valid
ProbeOutcome_NoShortCircuit(r, token_fetch_count) ==
    IF r.status_code # "401" /\ r.status_code # "403" THEN "raise_status"
    ELSE IF token_fetch_count > CONNECTION_RETRY THEN "raise_tokens"
    ELSE IF SplitLen(r.body) # 2 THEN "again"
    ELSE "authorize"

\* login(), lines 138-152: what to do with the probe's response r
ProbeOutcome(r, token_fetch_count) ==
    IF r.status_code = "200" THEN "return"
    ELSE IF r.status_code # "401" /\ r.status_code # "403" THEN "raise_status"
    ELSE IF token_fetch_count > CONNECTION_RETRY THEN "raise_tokens"
    ELSE IF SplitLen(r.body) # 2 THEN "again"
    ELSE "authorize"

\* login(), lines 154-159
AuthorizeRequest == RequestFrame(UrlAuthorize, "None", "None", FALSE, CONNECTION_RETRY)

\* the authorize step accepted on its status alone
AuthorizeRejected_StatusOnly(r) == r.status_code # "200"

\* login(), line 160
AuthorizeRejected(r) == r.status_code # "200" \/ r.url # LoginPage

\* login(), line 161: response.text is a str, and calling it raises
AuthorizeError == TypeError

\* login(), lines 162-171
LoginDoRequest == RequestFrame(UrlLoginDo, "form", "200", FALSE, CONNECTION_RETRY)

\* login() not looking at the URL the credential POST ended on
PostOutcome_IgnoresUrl(v) ==
    IF ~IsResponse(v) THEN "attribute_error" ELSE "continue"

\* login(), lines 172-173: v is what request() returned
PostOutcome(v) ==
    IF ~IsResponse(v) THEN "attribute_error"
    ELSE IF v.url = AuthError THEN "bad_credentials"
    ELSE "continue"

\* login(), lines 175-180
UserRequest == RequestFrame(UrlUser, "None", "200", FALSE, CONNECTION_RETRY)

\* login() storing the record before looking for customer_number
UserOutcome_NoCheck(v) ==
    IF ~IsResponse(v) THEN "attribute_error" ELSE "store"

\* login(), lines 181-187: v is what request() returned
UserOutcome(v) ==
    IF ~IsResponse(v) THEN "attribute_error"
    ELSE IF "customer_number" \notin DOMAIN Json(v.body) THEN "bad_credentials"
    ELSE "store"

-----------------------------------------------------------------------------
(* The setup flow (config_flow.py) *)

\* the classes an exception is an instance of; the two exceptions of the
\* client (exceptions.py) are distinct error kinds, each a plain Exception
Mro(e) ==
    CASE e.type = "RecursionError" -> {"RecursionError", "RuntimeError", "Exception"}
      [] OTHER -> {e.type, "Exception"}

\* test_connection with the clause for BadCredentialsException left out
ErrorFor_NoInvalidAuth(e) ==
    IF "AssertionError" \in Mro(e) THEN "cannot_connect"
    ELSE IF "ConnectionError" \in Mro(e) THEN "cannot_connect"
    ELSE IF "TelenetServiceException" \in Mro(e) THEN "service_error"
    ELSE "unknown"

\* test_connection, lines 141-152: the first except clause that matches
ErrorFor(e) ==
    IF "AssertionError" \in Mro(e) THEN "cannot_connect"
    ELSE IF "ConnectionError" \in Mro(e) THEN "cannot_connect"
    ELSE IF "TelenetServiceException" \in Mro(e) THEN "service_error"
    ELSE IF "BadCredentialsException" \in Mro(e) THEN "invalid_auth"
    ELSE "unknown"

\* test_connection, line 153: what it returns; caught is the exception its
\* try statement has caught, if any
NoException == [type |-> "none"]
Tested(ud, errors, caught) ==
    [user_details |-> ud, errors |-> errors, caught |-> caught]

\* test_connection, called by a step of the flow
TestFrame(step) == [fn |-> "test_connection", pc |-> "validate", step |-> step]

\* the steps of the flow that test the connection
FlowSteps == {"connection_init", "password"}

\* what a step hands back to the flow manager; updated: the step has
\* written user input into new_entry_data
ShowForm(step, errors) ==
    [kind |-> "form", step_id |-> step, errors |-> errors, updated |-> FALSE]
FinishFlow == [kind |-> "finish", updated |-> TRUE]
AbortFlow == [kind |-> "abort", reason |-> "already_configured", updated |-> TRUE]
StepRaises(e) == [kind |-> "raise", exc |-> e, updated |-> TRUE]

\* async_step_connection_init, lines 78-105, and async_step_password, lines
\* 162-184: the ways a step can go on once test_connection has returned test
StepResults(step, test) ==
    IF step = "connection_init"
    THEN IF test.errors = EmptyDict
         THEN IF "customer_number" \in DOMAIN test.user_details
              THEN {FinishFlow, AbortFlow}
              ELSE {StepRaises(TypeError)}
         ELSE {ShowForm(step, test.errors)}
    ELSE IF test.errors = EmptyDict
         THEN {FinishFlow}
         ELSE {ShowForm(step, EmptyDict)}

-----------------------------------------------------------------------------
(* The product model (models.py) *)

\* TelenetProduct: the fields the dataclass declares, with their defaults
TelenetProductDefaults ==
    [product_name |-> "", product_key |-> "", product_description_key |-> "",
     product_suffix |-> "", product_state |-> "Inactive",
     product_identifier |-> <<"">>, product_type |-> "",
     product_description |-> "", product_specurl |-> "", product_info |-> <<>>,
     product_plan_identifier |-> "", product_subscription_info |-> <<>>,
     product_extra_attributes |-> <<>>, product_extra_sensor |-> FALSE,
     product_ignore_extra_sensor |-> FALSE]

\* TelenetProduct(**kwargs): the generated __init__ takes the declared fields
\* only; any other keyword is "got an unexpected keyword argument"
TelenetProduct(kwargs) ==
    IF DOMAIN kwargs \subseteq DOMAIN TelenetProductDefaults
    THEN kwargs @@ TelenetProductDefaults
    ELSE TypeError

\* the dict self.all_products as the sequence of its items, in insertion order
Item(k, v) == [key |-> k, value |-> v]
Keys(d) == {d[i].key : i \in DOMAIN d}
Values(d) == [i \in DOMAIN d |-> d[i].value]
Get(d, k) == (CHOOSE i \in DOMAIN d : d[i].key = k)

\* d[k] = v
Put(d, k, v) ==
    IF k \in Keys(d)
    THEN [i \in DOMAIN d |-> IF d[i].key = k THEN Item(k, v) ELSE d[i]]
    ELSE Append(d, Item(k, v))

\* format_entity_name (utils.py): the slug of a string, given by its words
format_entity_name(words) == [slug |-> words]

\* an identifier used as key of the table
Str(identifier) == [str |-> identifier]

-----------------------------------------------------------------------------
(* The portal of the discovery pass *)

\* an entry of the active-products list: a plan, a child of a plan or an option
Product(identifier, productType, specurl, addressId, children, options) ==
    [identifier |-> identifier, productType |-> productType, label |-> identifier,
     specurl |-> specurl, addressId |-> addressId,
     children |-> children, options |-> options]

Leaf(identifier, productType, specurl) ==
    Product(identifier, productType, specurl, "None", <<>>, <<>>)

\* an account without products: the list is []
TreeEmpty == <<>>

\* a bundle with an internet line (and an option of it), a decoder, two mobile lines
TreeBundle ==
    <<Product("p1", "bundle", "sheet-p1", "a1",
        <<Product("i1", "internet", "sheet-i1", "a1", <<>>,
                  <<Leaf("o1", "internet", "None")>>),
          Leaf("d1", "dtv", "sheet-d1"),
          Leaf("m1", "mobile", "sheet-m1"),
          Leaf("m2", "mobile", "sheet-m1")>>, <<>>)>>

\* one identifier under several types, and the same product listed twice
TreeOverlap ==
    <<Product("i1", "internet", "sheet-i1", "None",
        <<Leaf("i1", "telephone", "sheet-i1"),
          Leaf("i1", "dtv", "sheet-d1"),
          Leaf("m1", "mobile", "sheet-m1")>>, <<>>),
      Leaf("m1", "mobile", "sheet-m1")>>

\* a decoder plan with a decoder child, and a mobile line of its own
TreeDtv ==
    <<Product("d0", "dtv", "sheet-d1", "None", <<Leaf("d1", "dtv", "sheet-d1")>>, <<>>),
      Leaf("m3", "mobile", "sheet-m1")>>

\* a mobile line without specification sheet, at an address
TreeMobile == <<Product("m3", "mobile", "None", "a1", <<>>, <<>>)>>

Trees == {TreeEmpty, TreeBundle, TreeOverlap, TreeDtv, TreeMobile}

\* characteristics.salespricevatincl of a specification sheet: the value in
\* cents, or no such characteristic; None as a product's price
Price(value) == [priced |-> TRUE, value |-> value]
NoPrice == [priced |-> FALSE, value |-> 0]

\* the specification sheets: the sales price and the advertised speeds
\* ("None": the sheet lists no such specification)
Sheet(url) ==
    CASE url = "sheet-p1" ->
            [salespricevatincl |-> Price(60), download |-> "None", upload |-> "None"]
      [] url = "sheet-i1" ->
            [salespricevatincl |-> Price(0), download |-> "1000 Mbps", upload |-> "40 Mbps"]
      [] url = "sheet-d1" ->
            [salespricevatincl |-> NoPrice, download |-> "None", upload |-> "None"]
      [] OTHER ->
            [salespricevatincl |-> Price(15), download |-> "None", upload |-> "None"]

\* what the portal reports for an internet line: the usage of the bill cycle
\* and singleSSIDRoamingSettings of the wireless settings, with or without
\* networkKey (a string, as its characters)
InternetData ==
    {[units |-> 50, allocated |-> 100, extended |-> 0,
      singleSSIDRoamingSettings |-> [name |-> "home"]],
     [units |-> 150, allocated |-> 100, extended |-> 50,
      singleSSIDRoamingSettings |->
        [name |-> "home", networkKey |-> <<"a", ":", "b", ":">>]],
     [units |-> 120, allocated |-> 100, extended |-> 0,
      singleSSIDRoamingSettings |-> [name |-> "home", networkKey |-> <<"a", "b">>]]}

\* what the portal reports as cost: usage to date of a decoder, out-of-bundle
\* usage of a mobile line or of a bundle, in cents
UsageCost(identifier) ==
    CASE identifier \in {"d0", "d1"} -> 5
      [] identifier \in {"m1", "m2", "m3"} -> 2
      [] OTHER -> 3

\* the decoders the portal lists for a dtv product, by their box names
Devices(identifier) ==
    IF identifier = "d1" THEN <<"box-1", "box-2">> ELSE <<"box-0">>

\* the identifier of a subscription the portal reports for an internet
\* product that is not in its list of active products
Foreign == "i9"

\* startUnits, remainingUnits and usedUnits of a usage total
Units(start, remaining, used) ==
    [startUnits |-> start, remainingUnits |-> remaining, usedUnits |-> used]

\* what the portal reports as the usage of a mobile line of its own: the
\* totals of data, text and voice
MobileUsage(identifier) ==
    [data |-> Units(0, 0, 0), text |-> Units(100, 40, 60), voice |-> Units(120, 90, 30)]

\* a record of the subscription endpoint, and of the PLAN records: keys the
\* projection of extra attributes knows, and one it does not
SubscriptionRecord(identifier, type) ==
    [identifier |-> identifier, productType |-> type, status |-> "ACTIVE",
     internalCode |-> "x"]

\* the endpoints of the pass that can fail, and how: login() raising, or a
\* request answered with a status that is not the expected 200
NoFail == [endpoint |-> "none", status_code |-> "200"]

FailPoints ==
    {NoFail, [endpoint |-> "login", status_code |-> "raise"]}
        \cup {[endpoint |-> e, status_code |-> c] :
                e \in {"products", "product_details", "address", "plan_info"},
                c \in {"404", "400"}}

Fixtures == [tree : Trees, internet : InternetData, fail : FailPoints]

\* the portal answers every request of the pass with 200
Healthy(fx) == fx.fail = NoFail

\* the status the portal answers a request of endpoint e with
StatusOf(fx, e) == IF fx.fail.endpoint = e THEN fx.fail.status_code ELSE "200"

\* request(url, caller, None, 200) for endpoint e: what comes back
Fetch(fx, e) ==
    LET o == RequestOutcome("200", FALSE, CONNECTION_RETRY,
                            Response(StatusOf(fx, e), ErrorBody("OCAPI-ERR-000"), Plain))
    IN  CASE o = "return" -> "response"
          [] o = "soft" -> "False"
          [] OTHER -> "raise"

\* the portal of a client that runs no discovery pass
Unused == CHOOSE fx \in Fixtures : fx.tree = TreeEmpty /\ Healthy(fx)

\* no products() call is running
IdlePc == [at |-> "idle"]

-----------------------------------------------------------------------------
(* Call, return and raise *)

\* frame f returns v to the frame below it, or to the caller of the client
Return(f, v) ==
    /\ stack' = Below
    /\ IF Below = <<>>
       THEN ret' = NoRet /\ outcome' = [kind |-> "return", op |-> f, val |-> v]
       ELSE ret' = Returned(f, v) /\ outcome' = outcome

\* no frame of the client catches: the exception reaches the caller of the
\* client, or the try statement of test_connection (config_flow.py, lines
\* 139-153), which returns no user details and the error of the clause
Raise(e) ==
    /\ stack' = <<>>
    /\ ret' = NoRet
    /\ outcome' =
            IF stack[1].fn = "test_connection"
            THEN LET test == Tested(EmptyDict, [base |-> ErrorFor(e)], e)
                 IN  [kind |-> "return", op |-> stack[1], val |-> test,
                      flow |-> CHOOSE f \in StepResults(stack[1].step, test) : TRUE]
            ELSE [kind |-> "raise", op |-> stack[1].fn, by |-> Top.fn, exc |-> e]

\* the top frame becomes f and calls: frames are pushed
Call(f, frames) ==
    IF Len(stack) + Len(frames) > MaxDepth
    THEN Raise(RecursionError)
    ELSE /\ stack' = Below \o <<f>> \o frames
         /\ ret' = NoRet
         /\ outcome' = outcome

\* TelenetClient.__init__
Constructed ==
    /\ stack = <<>>
    /\ ret = NoRet
    /\ outcome = Idle
    /\ cookie = "None"
    /\ header = "None"
    /\ user_details = EmptyDict
    /\ request_error = EmptyDict
    /\ log = <<>>
    /\ all_products = <<>>
    /\ product_types = <<>>
    /\ total_cost = 0
    /\ addresses = {}
    /\ plan_products = {}
    /\ products_pc = IdlePc
    /\ http = 0
    /\ calls = <<>>

Init == Constructed /\ fixture = Unused

\* a client and a portal for its discovery passes
InitProducts == Constructed /\ fixture \in Fixtures

-----------------------------------------------------------------------------
(* Entry points *)

\* a caller of the client (products(), the setup flow) calls login()
CallLogin ==
    /\ stack = <<>>
    /\ stack' = <<LoginFrame, ProbeRequest>>
    /\ ret' = NoRet
    /\ outcome' = Running
    /\ log' = <<LoginEvent(user_details)>>
    /\ UNCHANGED <<cookie, header, user_details, request_error>>

\* a method of the client calls request(url, caller, None, expected)
CallRequest ==
    /\ stack = <<>>
    /\ \E expected \in {"200", "None"} :
         stack' = <<RequestFrame(UrlApi, "None", expected, FALSE, CONNECTION_RETRY)>>
    /\ ret' = NoRet
    /\ outcome' = Running
    /\ log' = <<>>
    /\ UNCHANGED <<cookie, header, user_details, request_error>>

-----------------------------------------------------------------------------
(* request() *)

\* lines 77-123 up to the call of login(): the request is sent, the portal
\* answers with one of answers[url] (and may set the TOKEN-XSRF cookie), the
\* response is dispatched
SendWith(answers) ==
    /\ stack # <<>>
    /\ Top.fn = "request"
    /\ Top.pc = "send"
    /\ \E r \in answers[Top.url], c \in {cookie} \cup Tokens :
         LET f == Top
             o == RequestOutcome(f.expected, f.retrying, f.connection_retry_left, r)
             sent == Record(log, RequestEvent(f, r))
         IN  /\ cookie' = c
             /\ user_details' = user_details
             /\ CASE o = "return" ->
                       /\ header' = XsrfHeader(c)
                       /\ request_error' = request_error
                       /\ log' = sent
                       /\ Return(f, r)
                  [] o = "soft" ->
                       /\ header' = header
                       /\ request_error' = Json(r.body)
                       /\ log' = sent
                       /\ Return(f, False)
                  [] o = "raise_unexpected" ->
                       /\ UNCHANGED <<header, request_error>>
                       /\ log' = sent
                       /\ Raise(TelenetServiceException(Message("Expecting HTTP")))
                  [] o = "raise_forbidden" ->
                       /\ UNCHANGED <<header, request_error>>
                       /\ log' = sent
                       /\ Raise(TelenetServiceException(Message("cause")))
                  [] o = "relogin" ->
                       /\ UNCHANGED <<header, request_error>>
                       /\ log' = IF Len(stack) < MaxDepth
                                 THEN Record(sent, LoginEvent(user_details))
                                 ELSE sent
                       /\ Call(SetPc(f, "login"), <<LoginFrame, ProbeRequest>>)

\* the portal answers anything it can
Send == SendWith([url \in Urls |-> ServerResponses(url)])

\* the portal keeps refusing the API endpoint while the session probe succeeds
SendReauth == SendWith([url \in Urls |-> ReauthResponses(url)])

\* lines 118-121: login() has returned, the request is issued again
RequestAfterLogin ==
    /\ stack # <<>>
    /\ Top.fn = "request"
    /\ Top.pc = "login"
    /\ ret.set
    /\ Call(SetPc(Top, "retry"), <<RetryFrame(Top)>>)
    /\ UNCHANGED <<cookie, header, user_details, request_error, log>>

\* lines 119-123: the recursive call has returned
RequestAfterRetry ==
    /\ stack # <<>>
    /\ Top.fn = "request"
    /\ Top.pc = "retry"
    /\ ret.set
    /\ header' = cookie
    /\ Return(Top, ret.val)
    /\ UNCHANGED <<cookie, user_details, request_error, log>>

-----------------------------------------------------------------------------
(* login() *)

\* lines 138-159: the probe has returned
LoginAfterProbe ==
    /\ stack # <<>>
    /\ Top.fn = "login"
    /\ Top.pc = "probe"
    /\ ret.set
    /\ LET r == ret.val
           o == ProbeOutcome(r, Top.token_fetch_count)
           counted == [Top EXCEPT !.token_fetch_count = @ + 1]
       IN  CASE o = "return" -> Return(Top, Dict(Json(r.body)))
             [] o = "raise_status" -> Raise(TelenetServiceException(Message("error while authenticating")))
             [] o = "raise_tokens" -> Raise(TelenetServiceException(Message("not returning the tokens")))
             [] o = "again" -> Call(counted, <<ProbeRequest>>)
             [] o = "authorize" -> Call(SetPc(counted, "authorize"), <<AuthorizeRequest>>)
    /\ UNCHANGED <<cookie, header, user_details, request_error, log>>

\* lines 160-171: the authorize request has returned
LoginAfterAuthorize ==
    /\ stack # <<>>
    /\ Top.fn = "login"
    /\ Top.pc = "authorize"
    /\ ret.set
    /\ IF AuthorizeRejected(ret.val)
       THEN Raise(AuthorizeError)
       ELSE Call(SetPc(Top, "login.do"), <<LoginDoRequest>>)
    /\ UNCHANGED <<cookie, header, user_details, request_error, log>>

\* lines 172-180: the credential POST has returned
LoginAfterPost ==
    /\ stack # <<>>
    /\ Top.fn = "login"
    /\ Top.pc = "login.do"
    /\ ret.set
    /\ LET o == PostOutcome(ret.val)
       IN  CASE o = "attribute_error" -> Raise(AttributeError) /\ header' = header
             [] o = "bad_credentials" ->
                    Raise(BadCredentialsException(ret.val.body)) /\ header' = header
             [] o = "continue" ->
                    header' = cookie /\ Call(SetPc(Top, "user_details"), <<UserRequest>>)
    /\ UNCHANGED <<cookie, user_details, request_error, log>>

\* lines 181-187: the user-details request has returned
LoginAfterUser ==
    /\ stack # <<>>
    /\ Top.fn = "login"
    /\ Top.pc = "user_details"
    /\ ret.set
    /\ LET o == UserOutcome(ret.val)
       IN  CASE o = "attribute_error" ->
                    Raise(AttributeError) /\ user_details' = user_details
             [] o = "bad_credentials" ->
                    /\ Raise(BadCredentialsException(Message("Missing customer number")))
                    /\ user_details' = user_details
             [] o = "store" ->
                    /\ user_details' = Json(ret.val.body)
                    /\ Return(Top, Dict(Json(ret.val.body)))
    /\ UNCHANGED <<cookie, header, request_error, log>>

-----------------------------------------------------------------------------
(* test_connection (config_flow.py) *)

\* a step of the flow is called (lines 69-77, 155-161).  Without user input
\* it shows its form and tests nothing; with it test_connection is called:
\* lines 132-140 and async_validate_input, lines 54-65, a new client is made
\* and its login() is called
CallTestConnection ==
    /\ stack = <<>>
    /\ \E step \in FlowSteps, user_input \in {"None", "credentials"} :
         IF user_input = "None"
         THEN /\ outcome' = [kind |-> "return", op |-> [fn |-> "async_step", step |-> step],
                              val |-> ShowForm(step, EmptyDict)]
              /\ stack' = <<>>
              /\ log' = <<>>
              /\ UNCHANGED <<cookie, header, user_details, request_error>>
         ELSE /\ outcome' = Running
              /\ stack' = <<TestFrame(step), LoginFrame, ProbeRequest>>
              /\ log' = <<LoginEvent(EmptyDict)>>
              /\ cookie' = "None"
              /\ header' = "None"
              /\ user_details' = EmptyDict
              /\ request_error' = EmptyDict
    /\ ret' = NoRet

\* lines 140 and 153: login() has returned the user details, and the step
\* goes on with the result of the test
TestConnectionReturns ==
    /\ Len(stack) = 1
    /\ stack[1].fn = "test_connection"
    /\ ret.set
    /\ stack' = <<>>
    /\ ret' = NoRet
    /\ LET test == Tested(ret.val.value, EmptyDict, NoException)
       IN  \E flow \in StepResults(stack[1].step, test) :
                outcome' = [kind |-> "return", op |-> stack[1], val |-> test,
                            flow |-> flow]
    /\ UNCHANGED <<cookie, header, user_details, request_error, log>>

-----------------------------------------------------------------------------
(* products(): the discovery pass *)

\* products(), lines 273-312: the calls the walk over the list makes, in order
AddCall(product, plan) ==
    [op |-> "add_product", product |-> product,
     plan_identifier |-> plan.identifier, plan_label |-> plan.label]

\* lines 308-312: the plan is marked product_ignore_extra_sensor
IgnoreMark(plan) == [op |-> "ignore", plan_identifier |-> plan.identifier]

RECURSIVE Flatten(_)
Flatten(ss) == IF ss = <<>> THEN <<>> ELSE Head(ss) \o Flatten(Tail(ss))

\* lines 286-307: the options of a child that have an identifier, then the child
ChildCalls(plan, child) ==
    [i \in DOMAIN child.options |-> AddCall(child.options[i], plan)]
        \o <<AddCall(child, plan)>>

dtv_found(plan) ==
    \E i \in DOMAIN plan.children : plan.children[i].productType = "dtv"

PlanCalls(plan) ==
    <<AddCall(plan, plan)>>
        \o Flatten([i \in DOMAIN plan.children |-> ChildCalls(plan, plan.children[i])])
        \o (IF dtv_found(plan) /\ plan.productType = "dtv"
            THEN <<IgnoreMark(plan)>> ELSE <<>>)

Walk(tree) == Flatten([i \in DOMAIN tree |-> PlanCalls(tree[i])])

\* what a method of the pass hands back: a value or an exception, the requests
\* it has sent, and the fields of the client as it leaves them
Result(kind, v, requests, table, types, cached) ==
    [kind |-> kind, val |-> v, requests |-> requests,
     all_products |-> table, product_types |-> types, addresses |-> cached]

ExpectingHTTP == TelenetServiceException(Message("Expecting HTTP"))

\* add_product_type, lines 189-193
add_product_type(types, type) ==
    IF \E i \in DOMAIN types : types[i] = type THEN types ELSE Append(types, type)

\* add_product, lines 195-245, called as item says; product_details (lines
\* 1004-1009) and address (lines 1180-1196) are the requests it makes
add_product(item) ==
    LET product == item.product
        identifier == product.identifier
        type == product.productType
        fetched == product.specurl # "None"
        sheet == Fetch(fixture, "product_details")
        product_info == IF fetched THEN Sheet(product.specurl) ELSE EmptyDict
        product_price ==
            IF fetched /\ product_info.salespricevatincl.priced
                /\ product_info.salespricevatincl.value > 0
            THEN product_info.salespricevatincl
            ELSE NoPrice
        address_id == product.addressId
        asked == address_id # "None" /\ address_id \notin addresses
        answer == Fetch(fixture, "address")
        cached == IF asked /\ answer = "response"
                  THEN addresses \cup {address_id} ELSE addresses
        requests == (IF fetched THEN 1 ELSE 0) + (IF asked THEN 1 ELSE 0)
        record ==
            TelenetProduct(
                [product_identifier |-> identifier,
                 product_type |-> type,
                 product_description_key |-> type,
                 product_plan_identifier |-> item.plan_identifier,
                 product_plan_label |-> item.plan_label,
                 product_name |-> identifier,
                 product_key |-> format_entity_name(<<identifier, type, "product">>),
                 product_state |-> product.label,
                 product_specurl |-> product.specurl,
                 product_info |-> product_info,
                 product_address |-> address_id,
                 product_price |-> product_price])
    IN  IF Str(identifier) \in Keys(all_products)
        THEN Result("return", FALSE, 0, all_products, product_types, addresses)
        ELSE IF fetched /\ sheet = "raise"
        THEN Result("raise", ExpectingHTTP, 1, all_products, product_types, addresses)
        ELSE IF fetched /\ sheet = "False"
        \* line 208: product_details returned False, and False has no .get
        THEN Result("raise", AttributeError, 1, all_products, product_types, addresses)
        ELSE IF asked /\ answer = "raise"
        THEN Result("raise", ExpectingHTTP, requests, all_products, product_types, addresses)
        ELSE IF record = TypeError
        THEN Result("raise", TypeError, requests, all_products, product_types, cached)
        ELSE Result("return", TRUE, requests,
                    Put(all_products, Str(identifier), record),
                    add_product_type(product_types, type), cached)

\* self.user_details.get("customer_number")
customer_number ==
    IF "customer_number" \in DOMAIN user_details
    THEN user_details.customer_number ELSE "None"

\* self.user_details.get("first_name")
first_name ==
    IF "first_name" \in DOMAIN user_details
    THEN user_details.first_name ELSE "None"

\* create_extra_sensors, lines 352-964.  Every product of the table is a
\* TelenetProduct, which has no attribute product_price: with a product in
\* the table the first round of the loop ends at line 360 or at line 367.
\* After the loop the invoice and user sensors are built (lines 924-963).
create_extra_sensors ==
    LET sheet == Fetch(fixture, "product_details")
        invoice ==
            TelenetProduct(
                [product_identifier |-> <<customer_number, "current invoice">>,
                 product_type |-> "invoice",
                 product_description_key |-> "euro",
                 product_name |-> "current invoice",
                 product_key |->
                    format_entity_name(<<customer_number, "current", "invoice">>),
                 product_plan_identifier |-> customer_number,
                 product_plan_label |-> "Customer",
                 product_state |-> total_cost,
                 product_extra_sensor |-> TRUE])
        user ==
            TelenetProduct(
                [product_identifier |-> "user details",
                 product_type |-> "user",
                 product_description_key |-> "user",
                 product_name |-> "user details",
                 product_key |->
                    format_entity_name(<<customer_number, "user", "details">>),
                 product_plan_identifier |-> customer_number,
                 product_plan_label |-> "Customer",
                 product_state |-> first_name,
                 product_extra_attributes |-> user_details,
                 product_extra_sensor |-> TRUE])
    IN  IF all_products # <<>>
        THEN Result("raise", IF sheet = "raise" THEN ExpectingHTTP ELSE AttributeError,
                    1, all_products, product_types, addresses)
        ELSE IF invoice = TypeError \/ user = TypeError
        THEN Result("raise", TypeError, 0, all_products, product_types, addresses)
        ELSE Result("return", TRUE, 0,
                    Put(Put(all_products, invoice.product_key, invoice),
                        user.product_key, user),
                    product_types, addresses)

\* the identifiers of the records the subscription endpoint returns for a
\* product type: those of the products listed with that type and, for
\* internet, first the one of a product that is not listed
Subscriptions(tree, type) ==
    LET w == Walk(tree)
        listed == {i \in DOMAIN w :
                    w[i].op = "add_product" /\ w[i].product.productType = type}
        known == [i \in DOMAIN w |->
                    IF i \in listed THEN <<w[i].product.identifier>> ELSE <<>>]
    IN  (IF type = "internet" THEN <<Foreign>> ELSE <<>>) \o Flatten(known)

\* product_subscriptions, lines 1081-1098: one request for each product type;
\* each record returned is attached to self.all_products[identifier], which
\* is a KeyError for an identifier that is not in the table
RECURSIVE product_subscriptions(_, _, _, _)
product_subscriptions(table, types, tree, sent) ==
    IF types = <<>>
    THEN [kind |-> "return", all_products |-> table, requests |-> sent]
    ELSE LET subs == Subscriptions(tree, Head(types))
             ids == {Str(subs[j]) : j \in DOMAIN subs}
             attached ==
                [i \in DOMAIN table |->
                    IF table[i].key \in ids
                    THEN Item(table[i].key,
                              [table[i].value EXCEPT
                                  !.product_subscription_info =
                                      SubscriptionRecord(table[i].key.str, Head(types))])
                    ELSE table[i]]
         IN  IF ids \subseteq Keys(table)
             THEN product_subscriptions(attached, Tail(types), tree, sent + 1)
             ELSE [kind |-> "raise", all_products |-> table, requests |-> sent + 1]

\* models.py, lines 39-84: the attributes of the Telenet...ExtraAttributes
\* class of a product type, as dir() lists them
Whitelist(type) ==
    {"activationDate", "identifier", "label", "status", "productType", "specurl"}
        \cup CASE type = "internet" -> {"internetType"}
               [] type = "mobile" ->
                    {"isDataOnlyPlan", "bundleIdentifier", "hasVoiceMail", "bundleType"}
               [] type = "dtv" -> {"bundleIdentifier", "isInteractive", "lineType"}
               [] type = "telephone" -> {"hasVoiceMail"}
               [] type = "bundle" -> {"products", "bundleFamily", "hasActiveMyBill"}
               [] OTHER -> {}

\* set_extra_attributes, lines 986-1000: the whitelisted keys of info
Projection(info, type) ==
    [key \in DOMAIN info \cap Whitelist(type) |-> info[key]]

\* set_extra_attributes, lines 973-1002.  For a product that is not an extra
\* sensor, product_extra_attributes is the list of the dataclass default, and
\* line 1001 (list |= dict) is a TypeError, as is len(info) of line 983 when
\* info is None; extra sensors are passed over
set_extra_attributes(table) ==
    IF \E i \in DOMAIN table : ~table[i].value.product_extra_sensor
    THEN [kind |-> "raise", val |-> TypeError, all_products |-> table]
    ELSE [kind |-> "return", val |-> TRUE, all_products |-> table]

\* the products() call that has just ended, as calls keeps it
Ended(o, n, table, total) ==
    [force_refresh |-> products_pc.force_refresh, fixture |-> fixture,
     before |-> products_pc.before, outcome |-> o, http |-> n,
     all_products |-> table, total_cost |-> total]

\* calls keeps the last two
Remember(call) ==
    IF calls = <<>> THEN <<call>> ELSE <<calls[Len(calls)], call>>

\* the running products() call ends with o, after n requests
End(o, n, table, total) ==
    /\ outcome' = o
    /\ products_pc' = IdlePc
    /\ http' = n
    /\ calls' = Remember(Ended(o, n, table, total))

RaiseIn(fn, e) == [kind |-> "raise", op |-> "products", by |-> fn, exc |-> e]
ReturnList(table) == [kind |-> "return", op |-> "products", val |-> Values(table)]

\* products() that requests the active products without logging in first
CallProducts_FetchFirst ==
    /\ products_pc = IdlePc
    /\ \E force_refresh \in BOOLEAN :
         LET started == [at |-> "products", force_refresh |-> force_refresh,
                         before |-> all_products]
         IN  IF Len(all_products) > 0 /\ ~force_refresh
             THEN /\ outcome' = ReturnList(all_products)
                  /\ products_pc' = IdlePc
                  /\ http' = 0
                  /\ calls' = Remember(
                        [force_refresh |-> force_refresh, fixture |-> fixture,
                         before |-> all_products, outcome |-> ReturnList(all_products),
                         http |-> 0, all_products |-> all_products,
                         total_cost |-> total_cost])
             ELSE /\ outcome' = Running
                  /\ products_pc' = started
                  /\ http' = 0
                  /\ calls' = calls
    /\ UNCHANGED <<all_products, product_types, total_cost, addresses, plan_products,
                   fixture, user_details>>
    /\ UNCHANGED session

\* lines 251-257: products(force_refresh) is called; with a table and no
\* forced refresh it returns the records of the table
CallProducts ==
    /\ products_pc = IdlePc
    /\ \E force_refresh \in BOOLEAN :
         LET started == [at |-> "login", force_refresh |-> force_refresh,
                         before |-> all_products]
         IN  IF Len(all_products) > 0 /\ ~force_refresh
             THEN /\ outcome' = ReturnList(all_products)
                  /\ products_pc' = IdlePc
                  /\ http' = 0
                  /\ calls' = Remember(
                        [force_refresh |-> force_refresh, fixture |-> fixture,
                         before |-> all_products, outcome |-> ReturnList(all_products),
                         http |-> 0, all_products |-> all_products,
                         total_cost |-> total_cost])
             ELSE /\ outcome' = Running
                  /\ products_pc' = started
                  /\ http' = 0
                  /\ calls' = calls
    /\ UNCHANGED <<all_products, product_types, total_cost, addresses, plan_products,
                   fixture, user_details>>
    /\ UNCHANGED session

\* how login() can end by raising
LoginErrors ==
    {BadCredentialsException(Message("Missing customer number")),
     TelenetServiceException(Message("error while authenticating")),
     TypeError}

\* lines 257-262: login() (at least its probe is sent) raises, or returns
\* having stored the record of the user or, through the probe answered 200,
\* having stored nothing; then the cost and the table are reset
ProductsLogin ==
    /\ products_pc.at = "login"
    /\ IF StatusOf(fixture, "login") # "200"
       THEN /\ \E e \in LoginErrors :
                    End(RaiseIn("login", e), http + 1, all_products, total_cost)
            /\ UNCHANGED <<all_products, product_types, total_cost, user_details>>
       ELSE /\ \E ud \in {user_details}
                    \cup {d \in UserDicts : "customer_number" \in DOMAIN d} :
                    user_details' = ud
            /\ total_cost' = 0
            /\ all_products' = <<>>
            /\ product_types' = <<>>
            /\ products_pc' = [products_pc EXCEPT !.at = "products"]
            /\ http' = http + 1
            /\ UNCHANGED <<outcome, calls>>
    /\ UNCHANGED <<addresses, plan_products, fixture>>
    /\ UNCHANGED session

NoProductsFound == TelenetServiceException(Message("No products found"))

\* lines 263-273: the active products are requested
FetchActive ==
    /\ products_pc.at = "products"
    /\ LET answer == Fetch(fixture, "products")
       IN  CASE answer = "raise" ->
                    End(RaiseIn("request", ExpectingHTTP), http + 1, all_products, total_cost)
             [] answer = "False" ->
                    End(RaiseIn("products", NoProductsFound), http + 1,
                        all_products, total_cost)
             [] answer = "response" ->
                    /\ products_pc' =
                            [at |-> "walk", force_refresh |-> products_pc.force_refresh,
                             before |-> products_pc.before, todo |-> Walk(fixture.tree)]
                    /\ http' = http + 1
                    /\ UNCHANGED <<outcome, calls>>
    /\ UNCHANGED <<all_products, product_types, total_cost, addresses, plan_products,
                   fixture, user_details>>
    /\ UNCHANGED session

\* lines 273-312: the next call of the walk: add_product, or the mark on a
\* decoder plan that has a decoder child
WalkStep ==
    /\ products_pc.at = "walk"
    /\ products_pc.todo # <<>>
    /\ LET item == Head(products_pc.todo)
           rest == [products_pc EXCEPT !.todo = Tail(@)]
       IN  IF item.op = "ignore"
           THEN /\ all_products' =
                        Put(all_products, Str(item.plan_identifier),
                            [all_products[Get(all_products, Str(item.plan_identifier))].value
                                EXCEPT !.product_ignore_extra_sensor = TRUE])
                /\ products_pc' = rest
                /\ UNCHANGED <<product_types, addresses, outcome, http, calls>>
           ELSE LET r == add_product(item)
                IN  /\ all_products' = r.all_products
                    /\ product_types' = r.product_types
                    /\ addresses' = r.addresses
                    /\ IF r.kind = "raise"
                       THEN End(RaiseIn("add_product", r.val), http + r.requests,
                                r.all_products, total_cost)
                       ELSE /\ products_pc' = rest
                            /\ http' = http + r.requests
                            /\ UNCHANGED <<outcome, calls>>
    /\ UNCHANGED <<total_cost, plan_products, fixture, user_details>>
    /\ UNCHANGED session

\* lines 313-314: product_subscriptions, then plan_info (lines 1011-1025):
\* the PLAN records are cached by identifier
PlanInfo ==
    /\ products_pc.at = "walk"
    /\ products_pc.todo = <<>>
    /\ LET subscribed == product_subscriptions(all_products, product_types,
                                               fixture.tree, 0)
           answer == Fetch(fixture, "plan_info")
           sent == http + subscribed.requests + 1
       IN  /\ all_products' = subscribed.all_products
           /\ IF subscribed.kind = "raise"
              THEN /\ End(RaiseIn("product_subscriptions", KeyError),
                          http + subscribed.requests, subscribed.all_products,
                          total_cost)
                   /\ plan_products' = plan_products
              ELSE IF answer = "raise"
              THEN /\ End(RaiseIn("request", ExpectingHTTP), sent,
                          subscribed.all_products, total_cost)
                   /\ plan_products' = {}
              ELSE /\ plan_products' =
                        IF answer = "response"
                        THEN {fixture.tree[i].identifier : i \in DOMAIN fixture.tree}
                        ELSE {}
                   /\ products_pc' = [products_pc EXCEPT !.at = "create_extra_sensors"]
                   /\ http' = sent
                   /\ UNCHANGED <<outcome, calls>>
    /\ UNCHANGED <<product_types, total_cost, addresses, fixture, user_details>>
    /\ UNCHANGED session

\* lines 315-317: create_extra_sensors, set_extra_attributes, and the
\* records of the table are returned
CreateExtraSensors ==
    /\ products_pc.at = "create_extra_sensors"
    /\ LET r == create_extra_sensors
           a == set_extra_attributes(r.all_products)
       IN  /\ all_products' = r.all_products
           /\ IF r.kind = "raise"
              THEN End(RaiseIn("create_extra_sensors", r.val), http + r.requests,
                       r.all_products, total_cost)
              ELSE IF a.kind = "raise"
              THEN End(RaiseIn("set_extra_attributes", a.val), http + r.requests,
                       r.all_products, total_cost)
              ELSE End(ReturnList(r.all_products), http + r.requests,
                       r.all_products, total_cost)
    /\ UNCHANGED <<product_types, total_cost, addresses, plan_products, fixture,
                   user_details>>
    /\ UNCHANGED session

NextProducts ==
    \/ CallProducts
    \/ ProductsLogin
    \/ FetchActive
    \/ WalkStep
    \/ PlanInfo
    \/ CreateExtraSensors

SpecProducts == InitProducts /\ [][NextProducts]_vars

-----------------------------------------------------------------------------

\* request() and login(): the product table is not touched
Next ==
    \/ CallLogin /\ UNCHANGED pipeline
    \/ CallRequest /\ UNCHANGED pipeline
    \/ Send /\ UNCHANGED pipeline
    \/ RequestAfterLogin /\ UNCHANGED pipeline
    \/ RequestAfterRetry /\ UNCHANGED pipeline
    \/ LoginAfterProbe /\ UNCHANGED pipeline
    \/ LoginAfterAuthorize /\ UNCHANGED pipeline
    \/ LoginAfterPost /\ UNCHANGED pipeline
    \/ LoginAfterUser /\ UNCHANGED pipeline

Spec == Init /\ [][Next]_vars

\* request() against the portal of ReauthResponses
NextReauth ==
    \/ CallRequest /\ UNCHANGED pipeline
    \/ SendReauth /\ UNCHANGED pipeline
    \/ RequestAfterLogin /\ UNCHANGED pipeline
    \/ LoginAfterProbe /\ UNCHANGED pipeline

SpecReauth == Init /\ [][NextReauth]_vars

\* the setup flow testing the connection
NextSetup ==
    \/ CallTestConnection /\ UNCHANGED pipeline
    \/ TestConnectionReturns /\ UNCHANGED pipeline
    \/ Send /\ UNCHANGED pipeline
    \/ RequestAfterLogin /\ UNCHANGED pipeline
    \/ RequestAfterRetry /\ UNCHANGED pipeline
    \/ LoginAfterProbe /\ UNCHANGED pipeline
    \/ LoginAfterAuthorize /\ UNCHANGED pipeline
    \/ LoginAfterPost /\ UNCHANGED pipeline
    \/ LoginAfterUser /\ UNCHANGED pipeline

SpecSetup == Init /\ [][NextSetup]_vars

-----------------------------------------------------------------------------
(* Reading the history *)

IsRequest(e) == e.ev = "request"
IsLogin(e) == e.ev = "login"

\* the HTTP requests of the history, in the order they were sent
Requests == SelectSeq(log, IsRequest)

\* the history is complete and is that of a call of login() / of request()
LoginCall == log # <<>> /\ log # Overflow /\ IsLogin(log[1])
RequestCall == log # <<>> /\ log # Overflow /\ IsRequest(log[1])

\* login() was called once in the history: no re-login
NoRelogin == Cardinality({i \in DOMAIN log : IsLogin(log[i])}) = 1

LastRequest == Requests[Len(Requests)]

\* value v has come back from the single frame left, or has reached the caller
HandedBack(v) ==
    \/ outcome.kind = "return" /\ outcome.val = v
    \/ outcome = Running /\ Len(stack) = 1 /\ ret.set /\ ret.val = v

-----------------------------------------------------------------------------
(* C1: a call of request() with a concrete expected status that returns,     *)
(* returns a response with that status or the soft-failure sentinel False,  *)
(* whether it returns to the caller of the client or to another frame.      *)

ExpectedOrSentinel(expected, v) ==
    v = False \/ (IsResponse(v) /\ v.status_code = expected)

C1_ExpectedStatusOrSentinel ==
    /\ (ret.set /\ ret.from.fn = "request" /\ ret.from.expected # "None")
          => ExpectedOrSentinel(ret.from.expected, ret.val)
    /\ (outcome.kind = "return" /\ outcome.op.fn = "request"
            /\ outcome.op.expected # "None")
          => ExpectedOrSentinel(outcome.op.expected, outcome.val)

\* request() has returned the response of a re-issued request to its caller
C1_Witness ==
    /\ outcome.kind = "return"
    /\ outcome.op.fn = "request"
    /\ outcome.op.expected = "200"
    /\ outcome.op.pc = "retry"
    /\ IsResponse(outcome.val)

-----------------------------------------------------------------------------
(* C2: against a portal that keeps answering 401, 500 or 403 without error  *)
(* code while every re-login succeeds, request() re-issues the request at   *)
(* most CONNECTION_RETRY times: no call of request() is ever made with a    *)
(* budget below zero.                                                       *)

C2_RetriesBounded ==
    \A i \in DOMAIN stack :
        stack[i].fn = "request" =>
            CONNECTION_RETRY - stack[i].connection_retry_left <= CONNECTION_RETRY

-----------------------------------------------------------------------------
(* C3: when the first response to request() with a concrete expected status *)
(* is a 403 without error code, request() calls login(), then re-issues the *)
(* same url and data with the retry flag set and the budget one lower; a    *)
(* re-issue answered with the expected status is the value the caller gets. *)

ForbiddenWithoutCode(e) ==
    /\ e.expected # "None"
    /\ e.response.status_code = "403"
    /\ ~HasCodeText(e.response.body)

\* the positions of the re-issues of the request that opened the history
Reissues == {i \in 2..Len(log) : IsRequest(log[i]) /\ log[i].url = log[1].url}

FirstReissue == CHOOSE i \in Reissues : \A j \in Reissues : i <= j

-----------------------------------------------------------------------------
(* C4: when the probe is answered 401 with a two-part body, authorize 200   *)
(* on the login page, the credential POST 200 without authentication error  *)
(* and user-details 200 with customer_number, login() sends exactly probe,  *)
(* authorize, credential POST, user-details, in that order, and returns the *)
(* user-details record; and no credential POST is ever sent before an       *)
(* authorize request has landed on the login page.                          *)

HappyAnswer(e) ==
    CASE e.url = UrlProbe ->
            e.response.status_code = "401" /\ SplitLen(e.response.body) = 2
      [] e.url = UrlAuthorize ->
            e.response.status_code = "200" /\ e.response.url = LoginPage
      [] e.url = UrlLoginDo ->
            e.response.status_code = "200" /\ e.response.url # AuthError
      [] e.url = UrlUser ->
            /\ e.response.status_code = "200"
            /\ "customer_number" \in DOMAIN Json(e.response.body)
      [] OTHER -> FALSE

Handshake == <<UrlProbe, UrlAuthorize, UrlLoginDo, UrlUser>>

AllHappy == \A i \in DOMAIN Requests : HappyAnswer(Requests[i])

C4_HandshakeInOrder ==
    /\ (LoginCall /\ AllHappy) =>
        /\ NoRelogin
        /\ Len(Requests) <= Len(Handshake)
        /\ \A i \in DOMAIN Requests :
                Requests[i].url = Handshake[i] /\ ~Requests[i].retrying
        /\ outcome.kind # "raise"
        /\ outcome.kind = "return" =>
                /\ Len(Requests) = Len(Handshake)
                /\ outcome.val = Dict(Json(LastRequest.response.body))
                /\ "customer_number" \in DOMAIN outcome.val.value
        /\ Len(Requests) = Len(Handshake) =>
                outcome.kind = "return" \/ HandedBack(LastRequest.response)
    /\ log # Overflow =>
        \A i \in DOMAIN log :
            (IsRequest(log[i]) /\ log[i].url = UrlLoginDo) =>
                \E j \in 1..(i - 1) :
                    /\ IsRequest(log[j])
                    /\ log[j].url = UrlAuthorize
                    /\ log[j].response.status_code = "200"
                    /\ log[j].response.url = LoginPage

\* login() has returned after the four requests of the handshake
C4_Witness ==
    /\ LoginCall
    /\ AllHappy
    /\ Len(Requests) = Len(Handshake)
    /\ outcome.kind = "return"

-----------------------------------------------------------------------------
(* C5: whenever login() returns, to the caller of the client or to          *)
(* request(), self.user_details is the record it returns and holds          *)
(* customer_number.                                                         *)

StoredIs(d) == user_details = d.value /\ "customer_number" \in DOMAIN user_details

C5_ReturnedRecordIsStored ==
    /\ (outcome.kind = "return" /\ outcome.op.fn = "login") => StoredIs(outcome.val)
    /\ (ret.set /\ ret.from.fn = "login") => StoredIs(ret.val)

-----------------------------------------------------------------------------
(* C6: when request() hands login() a user-details response with status    *)
(* 200 and no customer_number, login() raises BadCredentialsException and  *)
(* stores nothing: self.user_details is not written by that step, never    *)
(* holds a record without customer_number, and after a login() without     *)
(* re-login is what it was when login() was called.                        *)

DegradedUser(v) ==
    /\ IsResponse(v)
    /\ v.status_code = "200"
    /\ "customer_number" \notin DOMAIN Json(v.body)

MissingCustomerNumber == BadCredentialsException(Message("Missing customer number"))

AtUserDetails ==
    stack # <<>> /\ Top.fn = "login" /\ Top.pc = "user_details" /\ ret.set

C6_DegradedStep ==
    (AtUserDetails /\ DegradedUser(ret.val)) =>
        /\ stack' = <<>>
        /\ outcome'.kind = "raise"
        /\ outcome'.exc = MissingCustomerNumber
        /\ user_details' = user_details

C6_DegradedState ==
    /\ user_details = EmptyDict \/ "customer_number" \in DOMAIN user_details
    /\ (LoginCall /\ outcome.kind = "raise" /\ outcome.exc = MissingCustomerNumber) =>
        /\ LastRequest.url = UrlUser
        /\ DegradedUser(LastRequest.response)
        /\ NoRelogin => user_details = log[1].user_details

C6_DegradedUserDetailsRejected == []C6_DegradedState /\ [][C6_DegradedStep]_vars

\* login() called with a record stored has raised on a degraded user-details answer
C6_Witness ==
    /\ LoginCall
    /\ NoRelogin
    /\ outcome.kind = "raise"
    /\ outcome.exc = MissingCustomerNumber
    /\ user_details # EmptyDict

-----------------------------------------------------------------------------
(* C7: when request() hands login() a credential-POST response (status 200) *)
(* whose URL shows an authentication error, login() raises                 *)
(* BadCredentialsException carrying the response body, sends no request    *)
(* after it and stores nothing: self.user_details is not written by that   *)
(* step and after a login() without re-login is what it was at the call.   *)

AuthErrorPost(v) == IsResponse(v) /\ v.status_code = "200" /\ v.url = AuthError

AtLoginDo ==
    stack # <<>> /\ Top.fn = "login" /\ Top.pc = "login.do" /\ ret.set

C7_AuthErrorStep ==
    (AtLoginDo /\ AuthErrorPost(ret.val)) =>
        /\ stack' = <<>>
        /\ outcome'.kind = "raise"
        /\ outcome'.exc = BadCredentialsException(ret.val.body)
        /\ user_details' = user_details
        /\ log' = log

C7_AuthErrorState ==
    (LoginCall /\ Requests # <<>> /\ LastRequest.url = UrlLoginDo
        /\ AuthErrorPost(LastRequest.response)) =>
        /\ outcome.kind # "return"
        /\ outcome.kind = "raise" =>
            /\ outcome.exc = BadCredentialsException(LastRequest.response.body)
            /\ NoRelogin => user_details = log[1].user_details

C7_AuthenticationErrorRejected == []C7_AuthErrorState /\ [][C7_AuthErrorStep]_vars

\* login() called with a record stored has raised on an authentication-error URL
C7_Witness ==
    /\ LoginCall
    /\ NoRelogin
    /\ Requests # <<>>
    /\ LastRequest.url = UrlLoginDo
    /\ AuthErrorPost(LastRequest.response)
    /\ outcome.kind = "raise"
    /\ outcome.exc.type = "BadCredentialsException"
    /\ user_details # EmptyDict

-----------------------------------------------------------------------------
(* C8: when the authorize response is not status 200 or is not on the      *)
(* login page, login() ends with TelenetServiceException, and the          *)
(* authorize request is the last request sent.                             *)

C8_RejectedAuthorizeIsServiceError ==
    \A i \in DOMAIN Requests :
        (LoginCall /\ Requests[i].url = UrlAuthorize
            /\ (Requests[i].response.status_code # "200"
                    \/ Requests[i].response.url # LoginPage)) =>
            /\ i = Len(Requests)
            /\ stack = <<>> =>
                /\ outcome.kind = "raise"
                /\ outcome.exc.type = "TelenetServiceException"

-----------------------------------------------------------------------------
(* C9: while the probe is answered 401/403, login() probes at most         *)
(* CONNECTION_RETRY + 2 times; with no well-formed body among the answers  *)
(* it ends with the "not returning the tokens" service error, and a        *)
(* well-formed two-part body in any of these probes lets it go on to the   *)
(* authorize step instead.                                                 *)

TokensNotReturned == TelenetServiceException(Message("not returning the tokens"))

WellFormed(e) == SplitLen(e.response.body) = 2

C9_TokensRefetchedWithinBound ==
    (LoginCall /\ NoRelogin /\ Requests # <<>>
        /\ \A i \in DOMAIN Requests :
                /\ Requests[i].url = UrlProbe
                /\ Requests[i].response.status_code \in {"401", "403"}) =>
        /\ Len(Requests) <= CONNECTION_RETRY + 2
        /\ (outcome.kind = "raise" /\ \A i \in DOMAIN Requests : ~WellFormed(Requests[i]))
                => outcome.exc = TokensNotReturned
        /\ WellFormed(LastRequest) =>
                ~(outcome.kind = "raise" /\ outcome.exc = TokensNotReturned)

-----------------------------------------------------------------------------
(* C10: when the first probe of login() is answered 200, login() returns   *)
(* that response's body and the probe is the only request sent: no         *)
(* authorize request, no credential POST, no re-login, no retry.           *)

C10_ProbeShortCircuit ==
    (LoginCall /\ Len(log) >= 2 /\ IsRequest(log[2])
        /\ log[2].response.status_code = "200") =>
        /\ Len(log) = 2
        /\ log[2].url = UrlProbe
        /\ ~log[2].retrying
        /\ \/ outcome.kind = "return" /\ outcome.val = Dict(Json(log[2].response.body))
           \/ HandedBack(log[2].response)

\* login() has returned the body of a probe answered 200
C10_Witness ==
    /\ LoginCall
    /\ Len(log) = 2
    /\ IsRequest(log[2])
    /\ log[2].response.status_code = "200"
    /\ outcome.kind = "return"
    /\ outcome.op.fn = "login"

-----------------------------------------------------------------------------
(* C11: when a probe of login() is answered with a status other than 200,   *)
(* 401 or 403, login() raises the "error while authenticating" service      *)
(* error at once: that probe is the last event of the history (no re-probe, *)
(* no authorize request, no re-login), and the call ends with that error.   *)

OtherStatus(e) ==
    e.url = UrlProbe /\ e.response.status_code \notin {"200", "401", "403"}

ErrorWhileAuthenticating ==
    TelenetServiceException(Message("error while authenticating"))

C11_OtherProbeStatusIsFatal ==
    \A i \in DOMAIN log :
        (log # Overflow /\ IsRequest(log[i]) /\ OtherStatus(log[i])) =>
            /\ i = Len(log)
            /\ outcome.kind # "return"
            /\ stack = <<>> =>
                /\ outcome.kind = "raise"
                /\ outcome.by = "login"
                /\ outcome.exc = ErrorWhileAuthenticating

\* login() has raised on its second probe, answered with another status
C11_Witness ==
    /\ LoginCall
    /\ Len(Requests) = 2
    /\ Requests[1].url = UrlProbe
    /\ OtherStatus(Requests[2])
    /\ outcome.kind = "raise"
    /\ outcome.exc = ErrorWhileAuthenticating

-----------------------------------------------------------------------------
(* Reading the products() calls that have ended *)

\* the call ran the discovery pass (it was not served from the table)
FullPass(c) == c.force_refresh \/ c.before = <<>>

\* the call returned the list of products
Completed(c) == c.outcome.kind = "return"

\* the registrations the walk over a tree asks for, in order
Discoveries(tree) ==
    LET w == Walk(tree)
        adds == {i \in DOMAIN w : w[i].op = "add_product"}
    IN  [i \in adds |-> w[i]]

\* those that find their identifier for the first time
FirstDiscoveries(tree) ==
    LET d == Discoveries(tree)
    IN  {i \in DOMAIN d :
            \A j \in DOMAIN d : j < i => d[j].product.identifier # d[i].product.identifier}

\* the records of a table under a key
RecordsAt(table, k) == {i \in DOMAIN table : table[i].key = k}

RECURSIVE Total(_, _)
Total(f, S) ==
    IF S = {} THEN 0
    ELSE LET x == CHOOSE y \in S : TRUE IN f[x] + Total(f, S \ {x})

-----------------------------------------------------------------------------
(* C12: a second registration of an identifier is a no-op and the first     *)
(* registration wins: after a discovery pass against a portal that answers  *)
(* every request, each identifier the walk has met has exactly one record   *)
(* in the table, with the type and plan of its first discovery, and each    *)
(* type is listed once in the product types.                                *)

C12_DuplicateRegistrationIsNoOp ==
    \A n \in DOMAIN calls :
        LET c == calls[n]
            d == Discoveries(c.fixture.tree)
        IN  (FullPass(c) /\ Healthy(c.fixture)) =>
                \A i \in FirstDiscoveries(c.fixture.tree) :
                    LET at == RecordsAt(c.all_products, Str(d[i].product.identifier))
                    IN  /\ Cardinality(at) = 1
                        /\ \A k \in at :
                            /\ c.all_products[k].value.product_type
                                    = d[i].product.productType
                            /\ c.all_products[k].value.product_plan_identifier
                                    = d[i].plan_identifier

-----------------------------------------------------------------------------
(* C13: a discovery pass over any product tree, against a portal that       *)
(* answers every request, ends with a table in which no two records have    *)
(* the same product_key and no derived sensor has the key of a real product *)

UniqueKeys(table) ==
    \A i, j \in DOMAIN table :
        i # j => table[i].value.product_key # table[j].value.product_key

DerivedApartFromReal(table) ==
    \A i, j \in DOMAIN table :
        (table[i].value.product_extra_sensor /\ ~table[j].value.product_extra_sensor)
            => table[i].value.product_key # table[j].value.product_key

C13_GeneratedKeysUnique ==
    \A n \in DOMAIN calls :
        LET c == calls[n]
        IN  (FullPass(c) /\ Healthy(c.fixture)) =>
                /\ Completed(c)
                /\ UniqueKeys(c.all_products)
                /\ DerivedApartFromReal(c.all_products)

-----------------------------------------------------------------------------
(* C14: a forced discovery pass, against a portal that answers every        *)
(* request, completes with total_cost the sum of the sales price of every   *)
(* registered product that has one, the usage to date of every decoder      *)
(* processed and the out-of-bundle usage of every mobile line and of every  *)
(* bundle, each counted once.                                               *)

\* the plans the walk marks product_ignore_extra_sensor
Ignored(tree) ==
    {tree[i].identifier : i \in {j \in DOMAIN tree :
        dtv_found(tree[j]) /\ tree[j].productType = "dtv"}}

ExpectedTotal(tree) ==
    LET d == Discoveries(tree)
        first == FirstDiscoveries(tree)
        price == [i \in first |->
                    LET p == d[i].product
                    IN  IF p.specurl # "None" /\ Sheet(p.specurl).salespricevatincl.priced
                        THEN Sheet(p.specurl).salespricevatincl.value ELSE 0]
        usage == [i \in first |->
                    LET p == d[i].product
                    IN  IF \/ p.productType = "dtv" /\ p.identifier \notin Ignored(tree)
                           \/ p.productType = "mobile"
                        THEN UsageCost(p.identifier) ELSE 0]
        bundles == {d[i].plan_identifier : i \in {j \in first :
                        /\ d[j].product.productType = "mobile"
                        /\ d[j].plan_identifier # d[j].product.identifier}}
    IN  Total(price, first) + Total(usage, first)
            + Total([b \in bundles |-> UsageCost(b)], bundles)

C14_TotalCostIsSumOfContributions ==
    \A n \in DOMAIN calls :
        LET c == calls[n]
        IN  (c.force_refresh /\ Healthy(c.fixture)) =>
                /\ Completed(c)
                /\ c.total_cost = ExpectedTotal(c.fixture.tree)

-----------------------------------------------------------------------------
(* C15: two forced discovery passes in a row against the same upstream      *)
(* data, the portal answering every request, both complete, and total_cost  *)
(* after the second is total_cost after the first.                          *)

C15_TotalCostRecomputed ==
    (/\ Len(calls) = 2
     /\ calls[1].force_refresh /\ calls[2].force_refresh
     /\ calls[1].fixture = calls[2].fixture
     /\ Healthy(calls[2].fixture)) =>
        /\ Completed(calls[1])
        /\ Completed(calls[2])
        /\ calls[2].total_cost = calls[1].total_cost

-----------------------------------------------------------------------------
(* C16: products(force_refresh=False) that follows a discovery pass         *)
(* against a portal that answers every request is served from the table:   *)
(* it sends no request, not even for login, returns the records the pass    *)
(* left and changes neither the table nor total_cost; and a forced pass     *)
(* that completes leaves no record but those of the products it has         *)
(* discovered and of the sensors derived from them.                         *)

DiscoveredKeys(tree) ==
    LET d == Discoveries(tree)
    IN  {Str(d[i].product.identifier) : i \in DOMAIN d}

C16_ServedFromCacheUnlessForced ==
    /\ (/\ Len(calls) = 2
        /\ FullPass(calls[1]) /\ Healthy(calls[1].fixture)
        /\ ~calls[2].force_refresh) =>
            /\ calls[2].http = 0
            /\ Completed(calls[2])
            /\ calls[2].outcome.val = Values(calls[1].all_products)
            /\ calls[2].all_products = calls[1].all_products
            /\ calls[2].total_cost = calls[1].total_cost
    /\ \A n \in DOMAIN calls :
        LET c == calls[n]
        IN  (c.force_refresh /\ Completed(c)) =>
                \A i \in DOMAIN c.all_products :
                    \/ c.all_products[i].value.product_extra_sensor
                    \/ c.all_products[i].key \in DiscoveredKeys(c.fixture.tree)

-----------------------------------------------------------------------------
(* C17: a discovery pass whose active-products request brings zero          *)
(* products, as the soft failure False or as an empty list, ends with the   *)
(* "No products found" service error.                                       *)

ZeroProducts(fx) ==
    \/ Fetch(fx, "products") = "False"
    \/ Healthy(fx) /\ fx.tree = <<>>

C17_ZeroProductsIsFatal ==
    \A n \in DOMAIN calls :
        LET c == calls[n]
        IN  (FullPass(c) /\ StatusOf(c.fixture, "login") = "200"
                /\ ZeroProducts(c.fixture)) =>
                /\ c.outcome.kind = "raise"
                /\ c.outcome.exc = NoProductsFound

-----------------------------------------------------------------------------
(* C18: a discovery pass in which the spec sheet endpoint, and nothing      *)
(* else, answers 404 completes without raising, with the invoice and user   *)
(* sensors in the table.                                                    *)

AccountSensors(table) ==
    /\ \E i \in DOMAIN table : table[i].value.product_type = "invoice"
    /\ \E i \in DOMAIN table : table[i].value.product_type = "user"

C18_SoftFailureSkipsOneProduct ==
    \A n \in DOMAIN calls :
        LET c == calls[n]
        IN  (FullPass(c)
                /\ c.fixture.fail = [endpoint |-> "product_details", status_code |-> "404"]) =>
                /\ Completed(c)
                /\ AccountSensors(c.all_products)

-----------------------------------------------------------------------------
(* C19: after a discovery pass against a portal that answers every request, *)
(* the usage sensor of each internet line has squeezed true and the speeds  *)
(* "1 Mbps" and "256 Kbps" when 100 x used / (allocated + extended) is at   *)
(* least 100, and squeezed false and the speeds of the spec sheet when it   *)
(* is below 100.                                                            *)

\* create_extra_sensors, lines 436-443 and 484: usage_pct >= 100
Squeezed(usage) == 100 * usage.units >= 100 * (usage.allocated + usage.extended)

\* lines 491-517: download_speed and upload_speed of the usage sensor
Speeds(usage, sheet) ==
    IF Squeezed(usage)
    THEN [download_speed |-> "1 Mbps", upload_speed |-> "256 Kbps"]
    ELSE [download_speed |-> sheet.download, upload_speed |-> sheet.upload]

\* the internet lines of a tree that have a spec sheet
InternetLines(tree) ==
    LET d == Discoveries(tree)
    IN  {d[i].product : i \in {j \in FirstDiscoveries(tree) :
            d[j].product.productType = "internet" /\ d[j].product.specurl # "None"}}

\* construct_extra_sensor, line 335: the key of a derived sensor
SensorKey(identifier, type, suffix) ==
    format_entity_name(<<identifier, type>> \o suffix)

C19_SqueezedSpeedsThrottled ==
    \A n \in DOMAIN calls :
        LET c == calls[n]
        IN  (FullPass(c) /\ Healthy(c.fixture)) =>
                \A p \in InternetLines(c.fixture.tree) :
                    LET at == RecordsAt(c.all_products,
                                        SensorKey(p.identifier, "internet", <<"usage">>))
                        speeds == Speeds(c.fixture.internet, Sheet(p.specurl))
                    IN  /\ at # {}
                        /\ \A k \in at :
                            LET a == c.all_products[k].value.product_extra_attributes
                            IN  /\ a.squeezed = Squeezed(c.fixture.internet)
                                /\ a.download_speed = speeds.download_speed
                                /\ a.upload_speed = speeds.upload_speed

-----------------------------------------------------------------------------
(* C20: after a discovery pass against a portal that answers every request, *)
(* an internet line has a Wi-Fi QR sensor exactly when the credential block *)
(* of its wireless settings has a network key, and the state of the sensor  *)
(* is WIFI:S:<ssid>;T:WPA;P:<key>;; with every colon of the key escaped.    *)

\* lines 584-588: networkKey.replace(":", r"\:")
EscapeColons(key) ==
    Flatten([i \in DOMAIN key |-> IF key[i] = ":" THEN <<"\\", ":">> ELSE <<key[i]>>])

\* line 589
WifiQr(settings) ==
    <<"WIFI:S:", settings.name, ";T:WPA;P:">> \o EscapeColons(settings.networkKey)
        \o <<";;">>

C20_WifiQrOnlyWithNetworkKey ==
    \A n \in DOMAIN calls :
        LET c == calls[n]
            settings == c.fixture.internet.singleSSIDRoamingSettings
        IN  (FullPass(c) /\ Healthy(c.fixture)) =>
                \A p \in InternetLines(c.fixture.tree) :
                    LET at == RecordsAt(c.all_products,
                                        SensorKey(p.identifier, "internet", <<"wi-fi", "qr">>))
                    IN  /\ at # {} <=> "networkKey" \in DOMAIN settings
                        /\ \A k \in at :
                            c.all_products[k].value.product_state = WifiQr(settings)

-----------------------------------------------------------------------------
(* C21: test_connection lets no exception of login() escape; when login()   *)
(* has raised, the user details it returns are empty and the error is       *)
(* invalid_auth for a bad-credentials error, service_error for a service    *)
(* error and unknown for any other exception.                               *)

Tests == outcome.kind = "return" /\ outcome.op.fn = "test_connection"

-----------------------------------------------------------------------------
(* Reading the step in which request() sends and dispatches *)

\* request() is about to send
Sending == stack # <<>> /\ Top.fn = "request" /\ Top.pc = "send"

\* the step enters its request in the history
Logged == log # Overflow /\ log' # Overflow /\ Len(log') > Len(log)

\* the request the step sends, with the answer it gets
SentNow == log'[Len(log) + 1]

\* the step returns v from the sending frame, to the frame below or to the caller
Hands(v) ==
    /\ stack' = Below
    /\ Len(log') = Len(log) + 1
    /\ IF Below = <<>>
       THEN outcome' = [kind |-> "return", op |-> Top, val |-> v]
       ELSE outcome' = outcome /\ ret' = Returned(Top, v)

-----------------------------------------------------------------------------
(* C22: when a request with a concrete expected status is answered 404,     *)
(* request() returns False at once with the JSON body of the answer in      *)
(* request_error: it raises nothing, calls no login() and sends nothing     *)
(* more, whatever its retry flag and the budget left.                       *)

NotFound(e) == e.expected # "None" /\ e.response.status_code = "404"

C22_NotFoundStep ==
    (Sending /\ Logged /\ NotFound(SentNow)) =>
        /\ Hands(False)
        /\ request_error' = Json(SentNow.response.body)

C22_NotFoundIsSoftFailure == [][C22_NotFoundStep]_vars

\* a re-issued request, answered 404, has come back to the caller as False
C22_Witness ==
    /\ RequestCall
    /\ Len(Requests) >= 2
    /\ LastRequest.url = UrlApi
    /\ LastRequest.retrying
    /\ LastRequest.connection_retry_left < CONNECTION_RETRY
    /\ NotFound(LastRequest)
    /\ outcome.kind = "return"
    /\ outcome.val = False
    /\ request_error = Json(LastRequest.response.body)

-----------------------------------------------------------------------------
(* C23: when the first answer to request() with a concrete expected status  *)
(* is a 403 whose JSON body has the benign code OCAPI-ERR-667, request()    *)
(* does not raise on it: it calls login() next, to re-issue the request.    *)

ForbiddenBenign(e) ==
    /\ e.expected # "None"
    /\ e.response.status_code = "403"
    /\ HasCodeText(e.response.body)
    /\ Json(e.response.body).code = "OCAPI-ERR-667"

C23_BenignForbiddenTolerated ==
    (RequestCall /\ ForbiddenBenign(log[1])) =>
        /\ Len(log) >= 2
        /\ IsLogin(log[2])

-----------------------------------------------------------------------------
(* C24: when a request with a concrete expected status is answered 403 with *)
(* a JSON body whose code is not OCAPI-ERR-667, request() returns False at  *)
(* once with that body in request_error: no login(), nothing sent again.    *)

ForbiddenOther(e) ==
    /\ e.expected # "None"
    /\ e.response.status_code = "403"
    /\ HasCodeText(e.response.body)
    /\ Json(e.response.body).code # "OCAPI-ERR-667"

C24_ForbiddenStep ==
    (Sending /\ Logged /\ ForbiddenOther(SentNow)) =>
        /\ Hands(False)
        /\ request_error' = Json(SentNow.response.body)

C24_OtherForbiddenIsSoftFailure == [][C24_ForbiddenStep]_vars

\* the caller of request() got False for a 403 with another code
C24_Witness ==
    /\ RequestCall
    /\ Len(log) = 1
    /\ ForbiddenOther(log[1])
    /\ outcome.kind = "return"
    /\ outcome.val = False
    /\ request_error = [code |-> "OCAPI-ERR-000"]

-----------------------------------------------------------------------------
(* C25: on a first attempt (retry flag unset, budget above zero) with a     *)
(* concrete expected status, an answer whose status is neither the expected *)
(* one nor 404, 401, 403 or 500 makes request() raise the service error at  *)
(* once: no login(), nothing sent again, the X-TOKEN-XSRF header untouched. *)

Unexpected(e) ==
    /\ e.expected # "None"
    /\ ~e.retrying
    /\ e.connection_retry_left > 0
    /\ e.response.status_code \notin {e.expected, "404", "401", "403", "500"}

C25_UnexpectedStep ==
    (Sending /\ Logged /\ Unexpected(SentNow)) =>
        /\ stack' = <<>>
        /\ Len(log') = Len(log) + 1
        /\ outcome'.kind = "raise"
        /\ outcome'.by = "request"
        /\ outcome'.exc = ExpectingHTTP
        /\ header' = header

C25_UnexpectedStatusFailsFast == [][C25_UnexpectedStep]_vars

\* request() has raised on its first answer, the new cookie not in the header
C25_Witness ==
    /\ RequestCall
    /\ Len(log) = 1
    /\ Unexpected(log[1])
    /\ outcome.kind = "raise"
    /\ outcome.exc = ExpectingHTTP
    /\ cookie \in Tokens
    /\ header # cookie

-----------------------------------------------------------------------------
(* C26: whenever request() returns a response, to the caller of the client  *)
(* or to another frame, the X-TOKEN-XSRF header is the TOKEN-XSRF cookie as *)
(* the portal has last set it.                                              *)

C26_XsrfHeaderMirrorsCookie ==
    /\ (ret.set /\ ret.from.fn = "request" /\ IsResponse(ret.val)) => header = cookie
    /\ (outcome.kind = "return" /\ outcome.op.fn = "request" /\ IsResponse(outcome.val))
            => header = cookie

\* request() has returned the response of a re-issue, with the token the
\* portal has set last in the header
C26_Witness ==
    /\ RequestCall
    /\ Len(Requests) >= 2
    /\ outcome.kind = "return"
    /\ outcome.op.fn = "request"
    /\ IsResponse(outcome.val)
    /\ cookie = "xsrf-B"
    /\ header = "xsrf-B"

-----------------------------------------------------------------------------
(* C27: a discovery pass in which the spec sheet endpoint fails, with the   *)
(* soft failure of a 404 or otherwise, does not end with an exception of    *)
(* add_product, and every product the walk has met is in the table with its *)
(* raw label as state.                                                      *)

SheetFails(fx) == fx.fail.endpoint = "product_details"

C27_SpecSheetFailureSwallowed ==
    \A n \in DOMAIN calls :
        LET c == calls[n]
            d == Discoveries(c.fixture.tree)
        IN  (FullPass(c) /\ SheetFails(c.fixture)) =>
                /\ ~(c.outcome.kind = "raise" /\ c.outcome.by = "add_product")
                /\ \A i \in FirstDiscoveries(c.fixture.tree) :
                    LET at == RecordsAt(c.all_products, Str(d[i].product.identifier))
                    IN  /\ at # {}
                        /\ \A k \in at :
                            c.all_products[k].value.product_state = d[i].product.label

-----------------------------------------------------------------------------
(* C28: a discovery pass against a portal that answers every request, and   *)
(* whose subscription endpoint returns a record of an identifier that is    *)
(* not in the table, does not end in product_subscriptions: the record is   *)
(* skipped, no entry is made for it, and the subscriptions of the products  *)
(* in the table are attached.                                               *)

ForeignSubscription(tree) ==
    \E i \in DOMAIN Discoveries(tree) :
        Discoveries(tree)[i].product.productType = "internet"

C28_UnknownSubscriptionSkipped ==
    \A n \in DOMAIN calls :
        LET c == calls[n]
            d == Discoveries(c.fixture.tree)
        IN  (FullPass(c) /\ Healthy(c.fixture) /\ ForeignSubscription(c.fixture.tree)) =>
                /\ ~(c.outcome.kind = "raise" /\ c.outcome.by = "product_subscriptions")
                /\ Str(Foreign) \notin Keys(c.all_products)
                /\ \A i \in FirstDiscoveries(c.fixture.tree) :
                    LET k == Str(d[i].product.identifier)
                        at == RecordsAt(c.all_products, k)
                    IN  /\ at # {}
                        /\ \A j \in at :
                            c.all_products[j].value.product_subscription_info.identifier
                                = d[i].product.identifier

-----------------------------------------------------------------------------
(* C29: a forced discovery pass, against a portal that answers every        *)
(* request, over a bundle with two or more mobile lines completes with one  *)
(* bundle-level out-of-bundle sensor for the bundle and with the bundle's   *)
(* out-of-bundle amount in total_cost once.                                 *)

\* the mobile lines of a plan
MobileLines(plan) ==
    {i \in DOMAIN plan.children : plan.children[i].productType = "mobile"}

\* the plans of a tree with two mobile lines or more
SharedBundles(tree) ==
    {tree[i] : i \in {j \in DOMAIN tree : Cardinality(MobileLines(tree[j])) >= 2}}

C29_BundleCostCountedOnce ==
    \A n \in DOMAIN calls :
        LET c == calls[n]
        IN  (c.force_refresh /\ Healthy(c.fixture)) =>
                \A plan \in SharedBundles(c.fixture.tree) :
                    /\ Cardinality(RecordsAt(c.all_products,
                            SensorKey(plan.identifier, "mobile",
                                      <<"out", "of", "bundle">>))) = 1
                    /\ c.total_cost = ExpectedTotal(c.fixture.tree)

-----------------------------------------------------------------------------
(* C30: after a discovery pass against a portal that answers every request, *)
(* the table holds, for each dtv product that is not marked to be ignored,  *)
(* as many "dtv device" sensors as the product has devices, one for each    *)
(* device, with the box name of the device as state.                        *)

\* the dtv products of a tree whose extra sensors are made
Decoders(tree) ==
    LET d == Discoveries(tree)
    IN  {d[i].product.identifier : i \in {j \in FirstDiscoveries(tree) :
            /\ d[j].product.productType = "dtv"
            /\ d[j].product.identifier \notin Ignored(tree)}}

\* the "dtv device" sensors of a product in a table
DeviceSensors(table, identifier) ==
    {i \in DOMAIN table :
        /\ table[i].value.product_extra_sensor
        /\ table[i].value.product_description_key = "dtv"
        /\ table[i].value.product_name = <<identifier, "dtv device">>}

C30_OneSensorForEachDevice ==
    \A n \in DOMAIN calls :
        LET c == calls[n]
        IN  (FullPass(c) /\ Healthy(c.fixture)) =>
                \A id \in Decoders(c.fixture.tree) :
                    LET sensors == DeviceSensors(c.all_products, id)
                    IN  /\ Cardinality(sensors) = Len(Devices(id))
                        /\ \A k \in DOMAIN Devices(id) :
                            \E i \in sensors :
                                c.all_products[i].value.product_state = Devices(id)[k]

-----------------------------------------------------------------------------
(* C31: after a discovery pass against a portal that answers every request, *)
(* a mobile line that is its own plan has a data sensor, an SMS sensor and  *)
(* a voice sensor exactly when the start, remaining or used units of that   *)
(* total are above zero: with text and voice used, both an SMS and a voice  *)
(* sensor.                                                                  *)

\* the mobile lines of a tree that are registered as their own plan
StandaloneMobile(tree) ==
    LET d == Discoveries(tree)
    IN  {d[i].product.identifier : i \in {j \in FirstDiscoveries(tree) :
            /\ d[j].product.productType = "mobile"
            /\ d[j].plan_identifier = d[j].product.identifier}}

\* lines 863-867, 884-888, 903-907
Reported(units) ==
    units.startUnits > 0 \/ units.remainingUnits > 0 \/ units.usedUnits > 0

\* the sensors of a description key that belong to a plan
SensorsOf(table, plan_identifier, description_key) ==
    {i \in DOMAIN table :
        /\ table[i].value.product_extra_sensor
        /\ table[i].value.product_plan_identifier = plan_identifier
        /\ table[i].value.product_description_key = description_key}

C31_StandaloneMobileSensors ==
    \A n \in DOMAIN calls :
        LET c == calls[n]
        IN  (FullPass(c) /\ Healthy(c.fixture)) =>
                \A id \in StandaloneMobile(c.fixture.tree) :
                    /\ SensorsOf(c.all_products, id, "mobile_data") # {}
                            <=> Reported(MobileUsage(id).data)
                    /\ SensorsOf(c.all_products, id, "mobile_sms") # {}
                            <=> Reported(MobileUsage(id).text)
                    /\ SensorsOf(c.all_products, id, "mobile_voice") # {}
                            <=> Reported(MobileUsage(id).voice)

-----------------------------------------------------------------------------
(* C32: after a discovery pass against a portal that answers every request, *)
(* a top-level dtv plan with a dtv child is marked to be ignored and has no *)
(* dtv usage and no dtv device sensor of its own, its usage is not in       *)
(* total_cost, and each dtv child has its usage sensor.                     *)

\* the top-level dtv plans of a tree that have a dtv child
DecoderPlans(tree) ==
    {tree[i] : i \in {j \in DOMAIN tree :
        tree[j].productType = "dtv" /\ dtv_found(tree[j])}}

C32_DecoderPlanIgnored ==
    \A n \in DOMAIN calls :
        LET c == calls[n]
        IN  (FullPass(c) /\ Healthy(c.fixture)) =>
                \A plan \in DecoderPlans(c.fixture.tree) :
                    /\ \E i \in RecordsAt(c.all_products, Str(plan.identifier)) :
                            c.all_products[i].value.product_ignore_extra_sensor
                    /\ RecordsAt(c.all_products,
                                 SensorKey(plan.identifier, "dtv", <<"usage">>)) = {}
                    /\ DeviceSensors(c.all_products, plan.identifier) = {}
                    /\ c.total_cost = ExpectedTotal(c.fixture.tree)
                    /\ \A k \in DOMAIN plan.children :
                            plan.children[k].productType = "dtv" =>
                                RecordsAt(c.all_products,
                                          SensorKey(plan.children[k].identifier, "dtv",
                                                    <<"usage">>)) # {}

-----------------------------------------------------------------------------
(* C33: after a discovery pass against a portal that answers every request, *)
(* every product the walk has met is in the table with one plan identifier: *)
(* the identifier of the top-level entry under which it was met first, its  *)
(* own when it is a top-level entry; never the identifier of a child.       *)

TopLevel(tree) == {tree[i].identifier : i \in DOMAIN tree}

C33_ProductsGroupedByPlan ==
    \A n \in DOMAIN calls :
        LET c == calls[n]
            d == Discoveries(c.fixture.tree)
        IN  (FullPass(c) /\ Healthy(c.fixture)) =>
                \A i \in FirstDiscoveries(c.fixture.tree) :
                    \E k \in RecordsAt(c.all_products, Str(d[i].product.identifier)) :
                        LET plan == c.all_products[k].value.product_plan_identifier
                        IN  /\ plan = d[i].plan_identifier
                            /\ plan \in TopLevel(c.fixture.tree)

-----------------------------------------------------------------------------
(* C34: a discovery pass against a portal that answers every request        *)
(* completes with, as the extra attributes of every product that is not an  *)
(* extra sensor, the keys of its source record that are in the whitelist of *)
(* its type: the source is its subscription info when it has one.           *)

C34_ExtraAttributesProjected ==
    \A n \in DOMAIN calls :
        LET c == calls[n]
        IN  (FullPass(c) /\ Healthy(c.fixture)) =>
                /\ Completed(c)
                /\ \A i \in DOMAIN c.all_products :
                    LET product == c.all_products[i].value
                        info == product.product_subscription_info
                    IN  (~product.product_extra_sensor /\ DOMAIN info # {}) =>
                            product.product_extra_attributes
                                = Projection(info, product.product_type)

-----------------------------------------------------------------------------
(* C35: a discovery pass against a portal that answers every request        *)
(* completes with one invoice sensor, whose state is total_cost as the pass *)
(* leaves it, and one user sensor, whose attributes are the record of the   *)
(* user and whose state is the first name of that record.                   *)

OfType(table, type) == {i \in DOMAIN table : table[i].value.product_type = type}

C35_InvoiceAndUserSensors ==
    \A n \in DOMAIN calls :
        LET c == calls[n]
        IN  (FullPass(c) /\ Healthy(c.fixture)) =>
                /\ Completed(c)
                /\ Cardinality(OfType(c.all_products, "invoice")) = 1
                /\ Cardinality(OfType(c.all_products, "user")) = 1
                /\ \A i \in OfType(c.all_products, "invoice") :
                        c.all_products[i].value.product_state = c.total_cost
                /\ \A i \in OfType(c.all_products, "user") :
                        LET user == c.all_products[i].value
                        IN  /\ user.product_extra_attributes \in UserDicts
                            /\ user.product_state = user.product_extra_attributes.first_name

-----------------------------------------------------------------------------
(* C36: in products(), the active products are requested only in a call     *)
(* whose login() has returned, after one request at least; and the step in  *)
(* which login() raises ends the call with that exception and leaves the    *)
(* table, the product types and total_cost as they were before the call.    *)

LoginFirst ==
    /\ (products_pc'.at = "products" /\ products_pc # products_pc') =>
            /\ products_pc.at = "login"
            /\ http' > http
            /\ outcome' = Running
    /\ (products_pc.at = "login" /\ products_pc'.at = "idle") =>
            /\ outcome'.kind = "raise" /\ outcome'.by = "login"
            /\ all_products' = all_products /\ all_products' = products_pc.before
            /\ product_types' = product_types
            /\ total_cost' = total_cost
            /\ calls'[Len(calls')].http = 1

-----------------------------------------------------------------------------
(* C38: a call of login() ends after a bounded number of requests: the      *)
(* logins that request() starts on a 401, a 500 or a 403 without error code *)
(* to the sign-in POST or to the fetch of the user details do not nest      *)
(* until the interpreter's stack is used up.                                *)

C38_LoginTerminates ==
    ~(/\ outcome.kind = "raise"
      /\ outcome.op = "login"
      /\ outcome.exc = RecursionError)

-----------------------------------------------------------------------------
(* C39: in the connection_init and password steps, new entry data is        *)
(* written and the flow finished only when the connection test returned no  *)
(* errors; when it returned an error, the step shows its own form again     *)
(* with that error as the errors of the form.                               *)

C39_StepReportsTestErrors ==
    Tests =>
        /\ (outcome.flow.updated \/ outcome.flow.kind = "finish")
                => outcome.val.errors = EmptyDict
        /\ outcome.val.errors # EmptyDict =>
                /\ outcome.flow.kind = "form"
                /\ outcome.flow.step_id = outcome.op.step
                /\ outcome.flow.errors = outcome.val.errors

====
